---------------------------- MODULE Spec2Model ----------------------------
(***************************************************************************)
(* A model of the ark kernel's execution core:                             *)
(*                                                                         *)
(*   - the execution coordinator of crates/ark/src/interface.rs: the R     *)
(*     main thread (start_r, r_read_console, r_polled_events,              *)
(*     r_write_console) and the request-consumer thread (listen,           *)
(*     handle_r_request, complete_execute_request), the R runtime lock,    *)
(*     the kernel mutex and the three channels between them;               *)
(*   - the session relay of crates/ark/src/frontend/frontend.rs            *)
(*     (PositronFrontend) over a CommSocket (amalthea socket/comm.rs).     *)
(*   - the dispatch registry of crates/ark/src/variables/methods.rs        *)
(*     (ArkGenerics: try_dispatch, register_method, parse_method and the   *)
(*     population of the methods table from the loaded namespaces).        *)
(*                                                                         *)
(* Strings are sequences of one-character strings, so that starts_with,    *)
(* push_str and len are computed as the code computes them.                *)
(***************************************************************************)
EXTENDS Naturals, Sequences, FiniteSets

VARIABLES
    \* ---- execution coordinator (interface.rs) ----
    lockHolder,     \* owner of R_RUNTIME_LOCK: "none", "main" or "task"
                    \* (the consumer thread, listen, never takes it)
    tasksPending,   \* R_RUNTIME_TASKS_PENDING
    kernelHolder,   \* owner of the KERNEL mutex: "none", "main" or "listen"
    rprompt,        \* channel RPROMPT_SEND -> prompt_recv
    console,        \* channel console_send -> CONSOLE_RECV
    execQ,          \* channel of execution requests -> exec_recv
    execOpen,       \* some sender of the request channel is alive
    pcM,            \* position of the R main thread
    resp,           \* what recv_timeout returned to r_read_console
    mem,            \* R's console input buffer (bytes 1..buflen) and the
                    \* byte of memory that follows it
    ret,            \* the path by which r_read_console last returned
    pcL,            \* position of the request-consumer thread (listen)
    cur,            \* the request the consumer is handling
    prompt,         \* the prompt complete_execute_request received
    initialized,    \* number of calls of kernel.complete_intialization
    warns,          \* number of "Could not receive" warnings logged
    pcT,            \* position of a thread that takes the R runtime lock
    \* ---- history of the coordinator ----
    submitted,      \* number of requests submitted so far
    handled,        \* requests taken by the consumer, in the order taken
    reports,        \* kernel notifications, in the order made
    answered,       \* number of input requests the front end has answered
    replyOf,        \* for each message on console: the request whose input
                    \* request it answers, 0 for a message of the kernel
    lastRead,       \* the same for the message r_read_console took last,
                    \* until the next prompt is published
    promptAfter,    \* for each prompt on rprompt: the request whose input
                    \* reply the interpreter read just before, or 0
    \* ---- session relay (frontend.rs) ----
    pcS,            \* position of the session thread
    incoming,       \* comm.incoming_tx -> comm.incoming_rx
    outgoing,       \* comm.outgoing_tx -> comm.outgoing_rx
    events,         \* event_tx -> event_rx
    eventOpen,      \* the event sender returned by start is alive
    closeSeen,      \* the session thread has taken a Close message
    errSeen,        \* the session thread has seen a receive error
    errLogs,        \* number of receive errors the session thread logged
    sent,           \* number of messages and events sent to the relay
    served,         \* what the session thread received, in order
    handlers,       \* comm.handlers, and the request_handler in it
    \* ---- dispatch registry (variables/methods.rs) ----
    methodsTable,   \* the interpreter's table: (generic, class) -> method
    regLog,         \* the registrations that succeeded, in order
    lastScan,       \* the last population of the table from namespaces:
                    \* the namespaces, the part of regLog it made
                    \* (start+1..end) and the number of errors logged
    dispatched,     \* the last call of try_dispatch: its arguments, the
                    \* table's method for them at that time, the call
                    \* evaluated and the result
    registryOps     \* number of registry operations so far

execVars == <<lockHolder, tasksPending, kernelHolder, rprompt, console,
              execQ, execOpen, pcM, resp, mem, ret,
              pcL, cur, prompt, initialized, warns, pcT, submitted, handled,
              reports, answered, replyOf, lastRead, promptAfter>>

traceVars == <<replyOf, lastRead, promptAfter>>

relayVars == <<pcS, incoming, outgoing, events, eventOpen, closeSeen,
               errSeen, errLogs, sent, served, handlers>>

registryVars == <<methodsTable, regLog, lastScan, dispatched, registryOps>>

vars == <<execVars, relayVars, registryVars>>

-----------------------------------------------------------------------------
(* Bounds of the model *)

\* Number of execution requests the front end submits.
MaxRequests == 2

\* Size of the interpreter's console buffer (buflen of r_read_console).
BufLen == 3

\* Number of receive warnings of listen that are counted.
MaxWarns == 2

\* Number of messages and events sent to the session relay.
MaxSent == 3

\* Number of receive errors of the session thread that are counted.
MaxErrLogs == 2

-----------------------------------------------------------------------------
(* Strings *)

StartsWith(s, prefix) ==
    /\ Len(s) >= Len(prefix)
    /\ SubSeq(s, 1, Len(prefix)) = prefix

ContinuePrompt == <<"+", " ">>
DefaultPrompt == <<">", " ">>
InputPrompt == <<"?", " ">>
SaveWorkspace == <<"S", "a", "v", "e", " ", "w", "o", "r", "k", "s", "p", "a", "c", "e">>
SaveWorkspacePrompt == SaveWorkspace \o <<"?">>

\* The prompts the interpreter passes to r_read_console.
Prompts == {ContinuePrompt, DefaultPrompt, InputPrompt, SaveWorkspacePrompt}

\* The prompts the interpreter may pass next, given how r_read_console last
\* returned: the first prompt of a session is the top-level prompt.
PromptsAfter(lastReturn) ==
    IF lastReturn = "none" THEN {DefaultPrompt} ELSE Prompts

\* The lines of code and of input the front end sends.
Lines == {<<"a">>, <<"a", "b">>}

NUL == "\\0"
NL == "\n"

\* Option<String> on the console channel.
None == [some |-> FALSE, val |-> <<>>]
Some(s) == [some |-> TRUE, val |-> s]
NoResp == [some |-> FALSE, val |-> <<"-">>]


-----------------------------------------------------------------------------
(* The console buffer *)

\* The byte that follows the buffer holds other data of the interpreter.
OtherData == "#"

\* libc::strcpy(dst, src) on the memory m, where dst is its first byte: the
\* bytes of src, its NUL included, are written whatever the size of dst.
Strcpy(m, src) ==
    [i \in 1..Len(m) |-> IF i <= Len(src) THEN src[i] ELSE m[i]]

\* on_console_input(buf, buflen, input): the memory after the call.
OnConsoleInput(m, buflen, input) ==
    LET line == input \o <<NL>>
        src == line \o <<NUL>>
    IN  IF Len(line) > buflen THEN m ELSE Strcpy(m, src)

\* The "Save workspace" answer of r_read_console: strcpy(buf, "n\n").
AnswerSaveWorkspace(m) == Strcpy(m, <<"n", NL, NUL>>)

\* A delivery that copies the reply's text whether or not there is one.
DeliverAlways(m, buflen, response) == OnConsoleInput(m, buflen, response.val)

\* What r_read_console does with a reply once it has the lock again.
DeliverReply(m, buflen, response) ==
    IF response.some THEN OnConsoleInput(m, buflen, response.val) ELSE m

-----------------------------------------------------------------------------
(* Requests and kernel notifications *)

\* The originator handle of the n-th request (a Vec<u8>).
Originator(n) == <<n>>

ExecuteCode(n, code) ==
    [kind |-> "ExecuteCode", id |-> n, code |-> code, originator |-> Originator(n)]
Interrupt(n) ==
    [kind |-> "Interrupt", id |-> n, code |-> <<>>, originator |-> <<>>]
Shutdown(n) ==
    [kind |-> "Shutdown", id |-> n, code |-> <<>>, originator |-> <<>>]

NoRequest == [kind |-> "none", id |-> 0, code |-> <<>>, originator |-> <<>>]

\* The requests the front end may submit as its n-th request.
Requests(n) ==
    {ExecuteCode(n, c) : c \in Lines} \cup {Interrupt(n), Shutdown(n)}

\* kernel.fulfill_request(req): what the kernel puts on the console channel.
FulfillRequest(req, chan) ==
    CASE req.kind = "ExecuteCode" -> Append(chan, Some(req.code))
      [] req.kind = "Shutdown" -> Append(chan, None)
      [] OTHER -> chan

\* kernel.report_incomplete_request(req)
ReportIncompleteRequest(req) ==
    [kind |-> "incomplete", req |-> req.id, originator |-> <<>>, prompt |-> <<>>]

\* kernel.request_input(originator, prompt), made while handling req
RequestInput(req, originator, p) ==
    [kind |-> "input", req |-> req.id, originator |-> originator, prompt |-> p]

\* kernel.finish_request(), made while handling req
FinishRequest(req) ==
    [kind |-> "finish", req |-> req.id, originator |-> <<>>, prompt |-> <<>>]

\* r_get_option::<String>("prompt"): the default prompt, or an error.
GetOptionResults ==
    {[ok |-> TRUE, val |-> DefaultPrompt], [ok |-> FALSE, val |-> <<>>]}

\* A continuation check that compares the whole prompt with "+".
IsExactlyPlus(p) == p = <<"+">>

\* prompt.starts_with("+")
IsContinuation(p) == StartsWith(p, <<"+">>)

\* An input request that omits the originator of the request.
NoOriginator(req) == <<>>

\* The originator complete_execute_request passes to request_input.
InputOriginator(req) ==
    IF req.kind = "ExecuteCode" THEN req.originator ELSE <<>>

\* complete_execute_request once r_get_option has returned: the notification.
ClassifyAfterOption(req, p, res) ==
    IF ~res.ok THEN FinishRequest(req)
    ELSE IF p # res.val THEN RequestInput(req, InputOriginator(req), p)
    ELSE FinishRequest(req)

\* A receive that returns the newest request queued instead of the oldest.
NewestRequest(q) == q[Len(q)]

\* The request exec_recv.recv() returns: the oldest one queued.
NextRequest(q) == Head(q)

\* A return after a reply that does not take the lock back.
GuardNotTaken == "none"

\* R_RUNTIME_LOCK_GUARD = Some(R_RUNTIME_LOCK...lock().unwrap()) after a
\* reply: the owner of the lock from then on.
GuardRetaken == "main"

\* A release that leaves the guard in place.
KeepGuard(holder) == holder

\* A loop that goes back to the wait without releasing the lock.
AfterPumpNoRelease == "rc_wait"

\* `continue` after R_ProcessEvents(): the head of the loop, where the lock
\* is released.
AfterPump == "rc_release"

\* A consumer that receives requests as soon as it is spawned.
ListenStartsReceiving == "recv"

\* Where listen starts: at prompt_recv.recv(), waiting for R's first prompt.
ListenStart == "init_prompt"

\* A kernel guard that lives on after the request is fulfilled.
KernelKeptAfterFulfill == "listen"

\* The owner of the kernel mutex when handle_r_request has fulfilled the
\* request: the guard is dropped at the end of the block.
KernelAfterFulfill == "none"

\* A hook that takes work to be pending whatever the flag says.
AlwaysPending(flag) == TRUE

\* r_polled_events goes on past its first line: R_RUNTIME_TASKS_PENDING.
HasPendingTasks(flag) == flag

\* A lock that is handed out whoever holds it.
LockIgnored(holder) == TRUE

\* R_RUNTIME_LOCK.lock() returns only when no thread holds the lock.
LockAvailable(holder) == holder = "none"

\* R_RUNTIME_LOCK_GUARD = None
ReleaseGuard(holder) == IF holder = "main" THEN "none" ELSE holder

InputReports == {i \in 1..Len(reports) : reports[i].kind = "input"}

\* The n-th input request made.
InputReportAt(n) ==
    CHOOSE i \in InputReports :
        Cardinality({j \in InputReports : j <= i}) = n

\* A consumer that, after request_input, waits for the next prompt of the
\* same request.
ClassifyAgain == "wait_prompt"

\* `return` after kernel.request_input: the request is left, the consumer
\* goes back to exec_recv.recv().
AfterRequestInput == "recv"


-----------------------------------------------------------------------------
(* Initial state: before start_r is called *)

InitExec ==
    /\ lockHolder = "none"
    /\ tasksPending = FALSE
    /\ kernelHolder = "none"
    /\ rprompt = <<>>
    /\ console = <<>>
    /\ execQ = <<>>
    /\ execOpen = TRUE
    /\ pcM = "start"
    /\ resp = NoResp
    /\ mem = [i \in 1..(BufLen + 1) |-> IF i <= BufLen THEN NUL ELSE OtherData]
    /\ ret = "none"
    /\ pcL = "unspawned"
    /\ cur = NoRequest
    /\ prompt = <<>>
    /\ initialized = 0
    /\ warns = 0
    /\ pcT = "idle"
    /\ submitted = 0
    /\ handled = <<>>
    /\ reports = <<>>
    /\ answered = 0
    /\ replyOf = <<>>
    /\ lastRead = 0
    /\ promptAfter = <<>>

-----------------------------------------------------------------------------
(* The front end and the kernel's shell, as far as they drive the core *)

\* A request is sent on the request channel.
Submit ==
    /\ execOpen
    /\ submitted < MaxRequests
    /\ \E req \in Requests(submitted + 1) : execQ' = Append(execQ, req)
    /\ submitted' = submitted + 1
    /\ UNCHANGED <<lockHolder, tasksPending, kernelHolder, rprompt, console,
                   execOpen, pcM, resp, mem, ret, pcL, cur, prompt,
                   initialized, warns, pcT, handled, reports, answered>>
    /\ UNCHANGED traceVars
    /\ UNCHANGED <<relayVars, registryVars>>

\* Every sender of the request channel is dropped.
DropExecSenders ==
    /\ execOpen
    /\ execOpen' = FALSE
    /\ UNCHANGED <<lockHolder, tasksPending, kernelHolder, rprompt, console,
                   execQ, pcM, resp, mem, ret, pcL, cur, prompt,
                   initialized, warns, pcT, submitted, handled, reports,
                   answered>>
    /\ UNCHANGED traceVars
    /\ UNCHANGED <<relayVars, registryVars>>

\* The front end answers an input request: a line on the console channel.
InputReply ==
    /\ answered < Cardinality(InputReports)
    /\ \E line \in Lines : console' = Append(console, Some(line))
    /\ answered' = answered + 1
    /\ UNCHANGED <<lockHolder, tasksPending, kernelHolder, rprompt, execQ,
                   execOpen, pcM, resp, mem, ret, pcL, cur, prompt,
                   initialized, warns, pcT, submitted, handled, reports>>
    /\ replyOf' = Append(replyOf, reports[InputReportAt(answered + 1)].req)
    /\ UNCHANGED <<lastRead, promptAfter>>
    /\ UNCHANGED <<relayVars, registryVars>>

-----------------------------------------------------------------------------
(* A thread other than the R main thread that uses the R runtime *)

TaskRequest ==
    /\ pcT = "idle"
    /\ tasksPending' = TRUE
    /\ pcT' = "waiting"
    /\ UNCHANGED <<lockHolder, kernelHolder, rprompt, console, execQ,
                   execOpen, pcM, resp, mem, ret, pcL, cur, prompt,
                   initialized, warns, submitted, handled, reports, answered>>
    /\ UNCHANGED traceVars
    /\ UNCHANGED <<relayVars, registryVars>>

TaskAcquire ==
    /\ pcT = "waiting"
    /\ lockHolder = "none"
    /\ lockHolder' = "task"
    /\ tasksPending' = FALSE
    /\ pcT' = "holding"
    /\ UNCHANGED <<kernelHolder, rprompt, console, execQ, execOpen, pcM,
                   resp, mem, ret, pcL, cur, prompt, initialized,
                   warns, submitted, handled, reports, answered>>
    /\ UNCHANGED traceVars
    /\ UNCHANGED <<relayVars, registryVars>>

TaskRelease ==
    /\ pcT = "holding"
    /\ lockHolder' = "none"
    /\ pcT' = "idle"
    /\ UNCHANGED <<tasksPending, kernelHolder, rprompt, console, execQ,
                   execOpen, pcM, resp, mem, ret, pcL, cur, prompt,
                   initialized, warns, submitted, handled, reports, answered>>
    /\ UNCHANGED traceVars
    /\ UNCHANGED <<relayVars, registryVars>>

-----------------------------------------------------------------------------
(* The R main thread *)

\* start_r: take the runtime lock, build the channels, spawn listen, run R.
StartR ==
    /\ pcM = "start"
    /\ LockAvailable(lockHolder)
    /\ lockHolder' = "main"
    /\ pcL' = ListenStart
    /\ pcM' = "running"
    /\ UNCHANGED <<tasksPending, kernelHolder, rprompt, console, execQ,
                   execOpen, resp, mem, ret, cur, prompt,
                   initialized, warns, pcT, submitted, handled, reports,
                   answered>>
    /\ UNCHANGED traceVars
    /\ UNCHANGED <<relayVars, registryVars>>

\* r_read_console, up to the loop: the interpreter asks for a line.
RReadConsole ==
    /\ pcM = "running"
    /\ \E p \in PromptsAfter(ret) :
         IF StartsWith(p, SaveWorkspace)
         THEN /\ mem' = AnswerSaveWorkspace(mem)
              /\ ret' = "save"
              /\ UNCHANGED <<rprompt, pcM, lastRead, promptAfter>>
         ELSE /\ rprompt' = Append(rprompt, p)
              /\ pcM' = "rc_release"
              /\ promptAfter' = Append(promptAfter, lastRead)
              /\ lastRead' = 0
              /\ UNCHANGED <<mem, ret>>
    /\ UNCHANGED <<lockHolder, tasksPending, kernelHolder, console, execQ,
                   execOpen, resp, pcL, cur, prompt, initialized, warns, pcT,
                   submitted, handled, reports, answered>>
    /\ UNCHANGED replyOf
    /\ UNCHANGED <<relayVars, registryVars>>

\* The head of the loop: the runtime lock is released.
RcRelease ==
    /\ pcM = "rc_release"
    /\ lockHolder' = ReleaseGuard(lockHolder)
    /\ pcM' = "rc_wait"
    /\ UNCHANGED <<tasksPending, kernelHolder, rprompt, console, execQ,
                   execOpen, resp, mem, ret, pcL, cur, prompt,
                   initialized, warns, pcT, submitted, handled, reports,
                   answered>>
    /\ UNCHANGED traceVars
    /\ UNCHANGED <<relayVars, registryVars>>

\* recv_timeout returns Ok(response).
RcRecv ==
    /\ pcM = "rc_wait"
    /\ console # <<>>
    /\ resp' = Head(console)
    /\ console' = Tail(console)
    /\ pcM' = "rc_ok_lock"
    /\ UNCHANGED <<lockHolder, tasksPending, kernelHolder, rprompt, execQ,
                   execOpen, mem, ret, pcL, cur, prompt,
                   initialized, warns, pcT, submitted, handled, reports,
                   answered>>
    /\ lastRead' = Head(replyOf)
    /\ replyOf' = Tail(replyOf)
    /\ UNCHANGED promptAfter
    /\ UNCHANGED <<relayVars, registryVars>>

\* recv_timeout returns Err(Timeout).
RcTimeout ==
    /\ pcM = "rc_wait"
    /\ console = <<>>
    /\ pcM' = "rc_to_lock"
    /\ UNCHANGED <<lockHolder, tasksPending, kernelHolder, rprompt, console,
                   execQ, execOpen, resp, mem, ret, pcL, cur,
                   prompt, initialized, warns, pcT, submitted, handled,
                   reports, answered>>
    /\ UNCHANGED traceVars
    /\ UNCHANGED <<relayVars, registryVars>>

\* After a reply: take the lock back, copy the input, return.
RcReturn ==
    /\ pcM = "rc_ok_lock"
    /\ LockAvailable(lockHolder)
    /\ lockHolder' = GuardRetaken
    /\ mem' = DeliverReply(mem, BufLen, resp)
    /\ ret' = IF resp.some THEN "reply" ELSE "eof"
    /\ resp' = NoResp
    /\ pcM' = "running"
    /\ UNCHANGED <<tasksPending, kernelHolder, rprompt, console, execQ,
                   execOpen, pcL, cur, prompt, initialized, warns, pcT,
                   submitted, handled, reports, answered>>
    /\ UNCHANGED traceVars
    /\ UNCHANGED <<relayVars, registryVars>>

\* After a timeout: take the lock back.
RcTimeoutLock ==
    /\ pcM = "rc_to_lock"
    /\ LockAvailable(lockHolder)
    /\ lockHolder' = "main"
    /\ pcM' = "rc_pump"
    /\ UNCHANGED <<tasksPending, kernelHolder, rprompt, console, execQ,
                   execOpen, resp, mem, ret, pcL, cur, prompt,
                   initialized, warns, pcT, submitted, handled, reports,
                   answered>>
    /\ UNCHANGED traceVars
    /\ UNCHANGED <<relayVars, registryVars>>

\* R_ProcessEvents(), then continue.
RcPump ==
    /\ pcM = "rc_pump"
    /\ pcM' = AfterPump
    /\ UNCHANGED <<lockHolder, tasksPending, kernelHolder, rprompt, console,
                   execQ, execOpen, resp, mem, ret, pcL, cur,
                   prompt, initialized, warns, pcT, submitted, handled,
                   reports, answered>>
    /\ UNCHANGED traceVars
    /\ UNCHANGED <<relayVars, registryVars>>

\* r_polled_events: return at once, or release the lock for pending tasks.
RPolledEvents ==
    /\ pcM = "running"
    /\ IF ~HasPendingTasks(tasksPending)
       THEN UNCHANGED <<lockHolder, pcM>>
       ELSE /\ lockHolder' = ReleaseGuard(lockHolder)
            /\ pcM' = "pe_lock"
    /\ UNCHANGED <<tasksPending, kernelHolder, rprompt, console, execQ,
                   execOpen, resp, mem, ret, pcL, cur, prompt,
                   initialized, warns, pcT, submitted, handled, reports,
                   answered>>
    /\ UNCHANGED traceVars
    /\ UNCHANGED <<relayVars, registryVars>>

\* r_polled_events: take the lock back and return.
PeAcquire ==
    /\ pcM = "pe_lock"
    /\ LockAvailable(lockHolder)
    /\ lockHolder' = "main"
    /\ pcM' = "running"
    /\ UNCHANGED <<tasksPending, kernelHolder, rprompt, console, execQ,
                   execOpen, resp, mem, ret, pcL, cur, prompt,
                   initialized, warns, pcT, submitted, handled, reports,
                   answered>>
    /\ UNCHANGED traceVars
    /\ UNCHANGED <<relayVars, registryVars>>

\* r_write_console: lock the kernel.
RWriteConsole ==
    /\ pcM = "running"
    /\ kernelHolder = "none"
    /\ kernelHolder' = "main"
    /\ pcM' = "write_console"
    /\ UNCHANGED <<lockHolder, tasksPending, rprompt, console, execQ,
                   execOpen, resp, mem, ret, pcL, cur, prompt,
                   initialized, warns, pcT, submitted, handled, reports,
                   answered>>
    /\ UNCHANGED traceVars
    /\ UNCHANGED <<relayVars, registryVars>>

\* r_write_console: kernel.write_console, then the kernel guard is dropped.
RWriteConsoleDone ==
    /\ pcM = "write_console"
    /\ kernelHolder' = "none"
    /\ pcM' = "running"
    /\ UNCHANGED <<lockHolder, tasksPending, rprompt, console, execQ,
                   execOpen, resp, mem, ret, pcL, cur, prompt,
                   initialized, warns, pcT, submitted, handled, reports,
                   answered>>
    /\ UNCHANGED traceVars
    /\ UNCHANGED <<relayVars, registryVars>>


-----------------------------------------------------------------------------
(* The request-consumer thread: listen *)

\* listen: wait for R's initial prompt.
ListenInitialPrompt ==
    /\ pcL = "init_prompt"
    /\ rprompt # <<>>
    /\ rprompt' = Tail(rprompt)
    /\ pcL' = "initialize"
    /\ UNCHANGED <<lockHolder, tasksPending, kernelHolder, console, execQ,
                   execOpen, pcM, resp, mem, ret, cur, prompt,
                   initialized, warns, pcT, submitted, handled, reports,
                   answered>>
    /\ promptAfter' = Tail(promptAfter)
    /\ UNCHANGED <<replyOf, lastRead>>
    /\ UNCHANGED <<relayVars, registryVars>>

\* listen: kernel.complete_intialization() under the kernel mutex.
ListenInitialize ==
    /\ pcL = "initialize"
    /\ kernelHolder = "none"
    /\ initialized' = initialized + 1
    /\ pcL' = "recv"
    /\ UNCHANGED <<lockHolder, tasksPending, kernelHolder, rprompt, console,
                   execQ, execOpen, pcM, resp, mem, ret, cur,
                   prompt, warns, pcT, submitted, handled, reports, answered>>
    /\ UNCHANGED traceVars
    /\ UNCHANGED <<relayVars, registryVars>>

\* listen: exec_recv.recv() returns Ok(req).
ListenRecv ==
    /\ pcL = "recv"
    /\ execQ # <<>>
    /\ LET req == NextRequest(execQ)
       IN  /\ cur' = req
           /\ execQ' = SelectSeq(execQ, LAMBDA r : r # req)
           /\ handled' = Append(handled,
                                [id |-> req.id, kind |-> req.kind,
                                 prompt |-> <<>>, opt |-> "none",
                                 after |-> 0])
    /\ pcL' = "fulfill"
    /\ UNCHANGED <<lockHolder, tasksPending, kernelHolder, rprompt, console,
                   execOpen, pcM, resp, mem, ret, prompt,
                   initialized, warns, pcT, submitted, reports, answered>>
    /\ UNCHANGED traceVars
    /\ UNCHANGED <<relayVars, registryVars>>

\* listen: exec_recv.recv() returns Err: every sender is gone.
ListenRecvError ==
    /\ pcL = "recv"
    /\ execQ = <<>>
    /\ ~execOpen
    /\ warns < MaxWarns
    /\ warns' = warns + 1
    /\ pcL' = "recv"
    /\ UNCHANGED <<lockHolder, tasksPending, kernelHolder, rprompt, console,
                   execQ, execOpen, pcM, resp, mem, ret, cur,
                   prompt, initialized, pcT, submitted, handled, reports,
                   answered>>
    /\ UNCHANGED traceVars
    /\ UNCHANGED <<relayVars, registryVars>>

\* handle_r_request: kernel.fulfill_request(req) under the kernel mutex.
HandleRRequest ==
    /\ pcL = "fulfill"
    /\ kernelHolder = "none"
    /\ console' = FulfillRequest(cur, console)
    /\ pcL' = IF cur.kind = "ExecuteCode" THEN "wait_prompt" ELSE "recv"
    /\ kernelHolder' = KernelAfterFulfill
    /\ UNCHANGED <<lockHolder, tasksPending, rprompt, execQ,
                   execOpen, pcM, resp, mem, ret, cur, prompt,
                   initialized, warns, pcT, submitted, handled, reports,
                   answered>>
    /\ replyOf' = IF Len(FulfillRequest(cur, console)) > Len(console)
                  THEN Append(replyOf, 0)
                  ELSE replyOf
    /\ UNCHANGED <<lastRead, promptAfter>>
    /\ UNCHANGED <<relayVars, registryVars>>

\* complete_execute_request: prompt_recv.recv()
CompleteRecvPrompt ==
    /\ pcL = "wait_prompt"
    /\ rprompt # <<>>
    /\ prompt' = Head(rprompt)
    /\ rprompt' = Tail(rprompt)
    /\ handled' = [handled EXCEPT ![Len(handled)].prompt = Head(rprompt),
                                   ![Len(handled)].after = Head(promptAfter)]
    /\ pcL' = "classify"
    /\ UNCHANGED <<lockHolder, tasksPending, kernelHolder, console, execQ,
                   execOpen, pcM, resp, mem, ret, cur, initialized,
                   warns, pcT, submitted, reports, answered>>
    /\ promptAfter' = Tail(promptAfter)
    /\ UNCHANGED <<replyOf, lastRead>>
    /\ UNCHANGED <<relayVars, registryVars>>

\* complete_execute_request: lock the kernel; a continuation prompt is
\* reported at once, any other prompt leads to the read of the option.
CompleteClassify ==
    /\ pcL = "classify"
    /\ kernelHolder = "none"
    /\ IF IsContinuation(prompt)
       THEN /\ reports' = Append(reports, ReportIncompleteRequest(cur))
            /\ pcL' = "recv"
            /\ UNCHANGED kernelHolder
       ELSE /\ kernelHolder' = "listen"
            /\ pcL' = "get_option"
            /\ UNCHANGED reports
    /\ UNCHANGED <<lockHolder, tasksPending, rprompt, console, execQ,
                   execOpen, pcM, resp, mem, ret, cur, prompt,
                   initialized, warns, pcT, submitted, handled, answered>>
    /\ UNCHANGED traceVars
    /\ UNCHANGED <<relayVars, registryVars>>

\* complete_execute_request: r_get_option("prompt") returns; the request is
\* finished or input is requested; the kernel guard is dropped.
CompleteGetOption ==
    /\ pcL = "get_option"
    /\ \E res \in GetOptionResults :
         /\ reports' = Append(reports, ClassifyAfterOption(cur, prompt, res))
         /\ pcL' = IF ClassifyAfterOption(cur, prompt, res).kind = "input"
                   THEN AfterRequestInput
                   ELSE "recv"
         /\ handled' = [handled EXCEPT ![Len(handled)].opt =
                          IF res.ok THEN "ok" ELSE "err"]
    /\ kernelHolder' = "none"
    /\ UNCHANGED <<lockHolder, tasksPending, rprompt, console, execQ,
                   execOpen, pcM, resp, mem, ret, cur, prompt,
                   initialized, warns, pcT, submitted, answered>>
    /\ UNCHANGED traceVars
    /\ UNCHANGED <<relayVars, registryVars>>

-----------------------------------------------------------------------------
(* The dispatch registry of crates/ark/src/variables/methods.rs *)

\* Number of registry operations (registrations, populations) that are
\* followed.
MaxRegistryOps == 2

\* ArkGenerics, in the order ArkGenerics::iter() yields the variants.
ArkGenerics ==
    <<"VariableDisplayValue", "VariableDisplayType", "VariableHasChildren",
      "VariableKind">>

\* The strum serialization of a variant: what into() and Display give.
GenericName(generic) ==
    CASE generic = "VariableDisplayValue" ->
           <<"a", "r", "k", "_", "v", "a", "r", "i", "a", "b", "l", "e", "_",
             "d", "i", "s", "p", "l", "a", "y", "_", "v", "a", "l", "u", "e">>
      [] generic = "VariableDisplayType" ->
           <<"a", "r", "k", "_", "v", "a", "r", "i", "a", "b", "l", "e", "_",
             "d", "i", "s", "p", "l", "a", "y", "_", "t", "y", "p", "e">>
      [] generic = "VariableHasChildren" ->
           <<"a", "r", "k", "_", "v", "a", "r", "i", "a", "b", "l", "e", "_",
             "h", "a", "s", "_", "c", "h", "i", "l", "d", "r", "e", "n">>
      [] generic = "VariableKind" ->
           <<"a", "r", "k", "_", "v", "a", "r", "i", "a", "b", "l", "e", "_",
             "k", "i", "n", "d">>

Dot == "."

\* Class names.
Foo == <<"f", "o", "o">>
Bar == <<"b", "a", "r">>
Classes == {Foo, Bar}

\* Values that try_dispatch is handed: x is an S3/S4 object or not, and has
\* a class either way (a bare vector has an implicit class).
Objects == {[object |-> TRUE, class |-> Foo], [object |-> TRUE, class |-> Bar],
            [object |-> FALSE, class |-> Foo]}

\* r_is_object(x)
RIsObject(x) == x.object

\* The extra named arguments of a dispatch.
ArgLists == {<<[name |-> "width", value |-> 1]>>}

\* Methods: a call pkg:::sym, or a closure handed to register_method
\* directly (no package).
NoMethod == [pkg |-> "", sym |-> <<>>]
Closure(name) == [pkg |-> "", sym |-> name]
Closures == {Closure(<<"m", "1">>), Closure(<<"m", "2">>)}

\* The loaded namespaces, in the order loadedNamespaces() lists them.
LoadedNamespaces == <<"pkgA", "pkgB">>

\* The bindings of a namespace, in the order its environment iterates:
\* name, kind of value, and whether the iterator could read the binding.
Binding(name, kind, readable) ==
    [name |-> name, kind |-> kind, readable |-> readable]

BindingsOfPkgA ==
    <<Binding(GenericName("VariableKind") \o <<Dot>> \o Foo,
              "Standard", TRUE),
      Binding(<<"h", "e", "l", "p", "e", "r">>, "Standard", TRUE),
      Binding(GenericName("VariableDisplayType") \o <<Dot>> \o Bar,
              "Active", TRUE),
      Binding(GenericName("VariableKind") \o <<Dot>>, "Standard", TRUE),
      Binding(GenericName("VariableDisplayValue") \o <<Dot>> \o Foo,
              "Promise", TRUE)>>

BindingsOfPkgB ==
    <<Binding(GenericName("VariableHasChildren") \o <<Dot>> \o Bar,
              "Standard", FALSE),
      Binding(GenericName("VariableKind") \o <<Dot>> \o Foo,
              "Standard", TRUE),
      Binding(GenericName("VariableDisplayType") \o <<Dot>> \o Bar,
              "Promise", TRUE),
      Binding(GenericName("VariableKind") \o <<"s", Dot>> \o Bar,
              "Standard", TRUE)>>

Bindings(package) ==
    CASE package = "pkgA" -> BindingsOfPkgA
      [] package = "pkgB" -> BindingsOfPkgB

\* name.split_once("."): the parts before and after the first ".".
RECURSIVE FirstDot(_, _)
FirstDot(name, i) ==
    IF i > Len(name) THEN 0
    ELSE IF name[i] = Dot THEN i
    ELSE FirstDot(name, i + 1)

NoSplit == [found |-> FALSE, before |-> <<>>, after |-> <<>>]

SplitOnce(name) ==
    LET i == FirstDot(name, 1)
    IN  IF i = 0 THEN NoSplit
        ELSE [found |-> TRUE, before |-> SubSeq(name, 1, i - 1),
              after |-> SubSeq(name, i + 1, Len(name))]

\* parse_method(name): the first generic whose name is a prefix of name,
\* with what follows the first "." as the class.
NoMatch == [matched |-> FALSE, generic |-> "none", class |-> <<>>]

RECURSIVE ParseMethodFrom(_, _)
ParseMethodFrom(name, i) ==
    IF i > Len(ArkGenerics) THEN NoMatch
    ELSE IF /\ StartsWith(name, GenericName(ArkGenerics[i]))
            /\ SplitOnce(name).found
         THEN [matched |-> TRUE, generic |-> ArkGenerics[i],
               class |-> SplitOnce(name).after]
    ELSE ParseMethodFrom(name, i + 1)

ParseMethod(name) == ParseMethodFrom(name, 1)

\* The interpreter's .ps.register_ark_method raises for a class that cannot
\* name an entry of the table: the empty string.
Rejects(class) == class = <<>>

\* The table after .ps.register_ark_method(generic, class, method): the
\* entry of (generic, class) is method, whatever it was.
Assign(table, key, method) ==
    [k \in DOMAIN table \cup {key} |-> IF k = key THEN method ELSE table[k]]

\* A registry in the course of an operation: the table, the registrations
\* made, whether the operation has failed, and the failures logged.
RegistryState(table, log) ==
    [table |-> table, log |-> log, ok |-> TRUE, logged |-> 0]

\* register_method(generic, class, method)
RegisterMethod(st, generic, class, method) ==
    IF Rejects(class)
    THEN [st EXCEPT !.ok = FALSE]
    ELSE [st EXCEPT
            !.table = Assign(st.table, <<GenericName(generic), class>>,
                             method),
            !.log = Append(st.log, [generic |-> generic, class |-> class,
                                    method |-> method])]

\* register_method_from_package(generic, class, package): the method is the
\* call package:::generic.class.
RegisterMethodFromPackage(st, generic, class, package) ==
    RegisterMethod(st, generic, class,
                   [pkg |-> package,
                    sym |-> GenericName(generic) \o <<Dot>> \o class])

\* The symbol names populate_variable_methods_table scans: the bindings the
\* iterator could read whose value is Standard or a Promise.
Scanned(binding) ==
    binding.readable /\ binding.kind \in {"Standard", "Promise"}

RECURSIVE SymbolNames(_)
SymbolNames(bindings) ==
    IF bindings = <<>> THEN <<>>
    ELSE (IF Scanned(Head(bindings)) THEN <<Head(bindings).name>> ELSE <<>>)
         \o SymbolNames(Tail(bindings))

\* The for loop of populate_variable_methods_table: a registration that
\* fails returns its error from the function (the ? operator).
RECURSIVE ScanSymbols(_, _, _)
ScanSymbols(st, package, names) ==
    IF names = <<>> THEN st
    ELSE LET m == ParseMethod(Head(names))
             r == RegisterMethodFromPackage(st, m.generic, m.class, package)
         IN  IF ~m.matched THEN ScanSymbols(st, package, Tail(names))
             ELSE IF r.ok THEN ScanSymbols(r, package, Tail(names))
             ELSE r

\* populate_variable_methods_table(package)
PopulateVariableMethodsTable(st, package) ==
    ScanSymbols(st, package, SymbolNames(Bindings(package)))

\* The iteration over the namespaces in the opposite order.
RECURSIVE Reversed(_)
Reversed(loaded) ==
    IF loaded = <<>> THEN <<>>
    ELSE Append(Reversed(Tail(loaded)), Head(loaded))

\* loaded.into_iter(): the namespaces in the order they are populated.
ScanOrder(loaded) == loaded

\* populate_methods_from_loaded_namespaces: the error of a namespace is
\* logged and the next namespace is populated.
RECURSIVE PopulateEach(_, _)
PopulateEach(st, packages) ==
    IF packages = <<>> THEN st
    ELSE LET r == PopulateVariableMethodsTable(st, Head(packages))
         IN  PopulateEach(IF r.ok THEN r
                          ELSE [r EXCEPT !.ok = TRUE,
                                         !.logged = r.logged + 1],
                          Tail(packages))

PopulateMethodsFromLoadedNamespaces(st) ==
    PopulateEach(st, ScanOrder(LoadedNamespaces))

\* What the interpreter hands back: NULL, or the value a method returned,
\* which the caller's type can be built from or not.
RNull == [by |-> NoMethod, null |-> TRUE, convertible |-> FALSE]
Returned(method, convertible) ==
    [by |-> method, null |-> FALSE, convertible |-> convertible]

\* What a method does when it is called: it returns a value of the expected
\* type, returns NULL, returns a value of another type, or raises.
Outcomes == {"value", "null", "unconvertible", "raise"}

\* package:::sym resolves when the namespace binds sym; a closure is there.
Resolves(method) ==
    \/ method.pkg = ""
    \/ \E i \in 1..Len(Bindings(method.pkg)) :
          /\ Bindings(method.pkg)[i].name = method.sym
          /\ Bindings(method.pkg)[i].readable

\* The interpreter evaluates method(x, ...).
Evaluate(method, x, args, outcome) ==
    IF ~Resolves(method) \/ outcome = "raise"
    THEN [raised |-> TRUE, val |-> RNull]
    ELSE [raised |-> FALSE,
          val |-> CASE outcome = "value" -> Returned(method, TRUE)
                    [] outcome = "unconvertible" -> Returned(method, FALSE)
                    [] outcome = "null" -> RNull]

\* The method the table holds for a generic and a class, if any.
Lookup(table, name, class) ==
    IF <<name, class>> \in DOMAIN table THEN table[<<name, class>>]
    ELSE NoMethod

\* The interpreter's call_ark_method(generic, x, ...): NULL when the table
\* has no method of the generic for the class of x, else the method's call.
CallArkMethod(table, name, x, args, outcome) ==
    IF Lookup(table, name, x.class) = NoMethod
    THEN [raised |-> FALSE, val |-> RNull]
    ELSE Evaluate(Lookup(table, name, x.class), x, args, outcome)

\* The results of try_dispatch.
OkNone == [tag |-> "OkNone", val |-> RNull, msg |-> ""]
OkSome(v) == [tag |-> "OkSome", val |-> v, msg |-> ""]
Err(msg) == [tag |-> "Err", val |-> RNull, msg |-> msg]

\* The call try_dispatch builds, and no call.
NoCall == [fn |-> "", generic |-> <<>>, args |-> <<>>]
Call(name, x, args) ==
    [fn |-> "call_ark_method", generic |-> name, args |-> <<x>> \o args]

\* A dispatch that returns early for no value at all.
DispatchesAnything(x) == FALSE

\* try_dispatch returns Ok(None) at once for x that is not an object.
SkipsDispatch(x) == ~RIsObject(x)

\* A result that is never taken for the absence of a method.
NullIsConverted(val) == FALSE

\* result.sexp == r_null(): "no method for that object".
IsNoMethod(val) == val.null

\* result.try_into(): the conversion to the caller's type.
TryInto(val) ==
    IF val.convertible THEN OkSome(val) ELSE Err("Conversion failed")

\* try_dispatch(x, args) of a generic: the call evaluated, if any, and the
\* result.
TryDispatch(table, generic, x, args, outcome) ==
    LET call == Call(GenericName(generic), x, args)
        r == CallArkMethod(table, GenericName(generic), x, args, outcome)
    IN  IF SkipsDispatch(x) THEN [call |-> NoCall, result |-> OkNone]
        ELSE IF r.raised THEN [call |-> call, result |-> Err("R error")]
        ELSE IF IsNoMethod(r.val) THEN [call |-> call, result |-> OkNone]
        ELSE [call |-> call, result |-> TryInto(r.val)]

NoObject == [object |-> FALSE, class |-> <<>>]

NoDispatch ==
    [generic |-> "none", x |-> NoObject, args |-> <<>>, outcome |-> "none",
     found |-> NoMethod, call |-> NoCall, result |-> OkNone]

NoScan ==
    [kind |-> "none", packages |-> <<>>, start |-> 0, end |-> 0,
     logged |-> 0]

InitRegistry ==
    /\ methodsTable = <<>>
    /\ regLog = <<>>
    /\ lastScan = NoScan
    /\ dispatched = NoDispatch
    /\ registryOps = 0

\* The registrations that are made directly: generic, class, method.
DirectRegistrations ==
    {<<"VariableKind", Foo>>, <<"VariableKind", <<>>>>,
     <<"VariableDisplayType", Bar>>} \X Closures

\* Some code registers a method: register_method(generic, class, method).
CallRegisterMethod ==
    /\ registryOps < MaxRegistryOps
    /\ \E d \in DirectRegistrations :
         LET r == RegisterMethod(RegistryState(methodsTable, regLog),
                                 d[1][1], d[1][2], d[2])
         IN  /\ methodsTable' = r.table
             /\ regLog' = r.log
    /\ registryOps' = registryOps + 1
    /\ UNCHANGED <<lastScan, dispatched>>
    /\ UNCHANGED <<execVars, relayVars>>

\* A namespace is loaded: populate_variable_methods_table(package).
NamespaceLoaded ==
    /\ registryOps < MaxRegistryOps
    /\ \E i \in 1..Len(LoadedNamespaces) :
         LET r == PopulateVariableMethodsTable(
                      RegistryState(methodsTable, regLog),
                      LoadedNamespaces[i])
         IN  /\ methodsTable' = r.table
             /\ regLog' = r.log
             /\ lastScan' = [kind |-> "package",
                             packages |-> <<LoadedNamespaces[i]>>,
                             start |-> Len(regLog),
                             end |-> Len(r.log),
                             logged |-> r.logged]
    /\ registryOps' = registryOps + 1
    /\ UNCHANGED dispatched
    /\ UNCHANGED <<execVars, relayVars>>

\* The kernel starts: populate_methods_from_loaded_namespaces().
PopulateLoaded ==
    /\ registryOps < MaxRegistryOps
    /\ LET r == PopulateMethodsFromLoadedNamespaces(
                    RegistryState(methodsTable, regLog))
       IN  /\ methodsTable' = r.table
           /\ regLog' = r.log
           /\ lastScan' = [kind |-> "loaded",
                           packages |-> LoadedNamespaces,
                           start |-> Len(regLog),
                           end |-> Len(r.log),
                           logged |-> r.logged]
    /\ registryOps' = registryOps + 1
    /\ UNCHANGED dispatched
    /\ UNCHANGED <<execVars, relayVars>>

\* The variables pane asks a generic about x: try_dispatch(x, args).
CallTryDispatch ==
    /\ \E i \in 1..Len(ArkGenerics), x \in Objects, args \in ArgLists,
          outcome \in Outcomes :
         LET r == TryDispatch(methodsTable, ArkGenerics[i], x, args,
                              outcome)
         IN  dispatched' = [generic |-> ArkGenerics[i], x |-> x,
                            args |-> args, outcome |-> outcome,
                            found |-> Lookup(methodsTable,
                                             GenericName(ArkGenerics[i]),
                                             x.class),
                            call |-> r.call, result |-> r.result]
    /\ UNCHANGED <<methodsTable, regLog, lastScan, registryOps>>
    /\ UNCHANGED <<execVars, relayVars>>

-----------------------------------------------------------------------------
(* The coordinator's specification *)

InitRelay ==
    /\ pcS = "unspawned"
    /\ incoming = <<>>
    /\ outgoing = <<>>
    /\ events = <<>>
    /\ eventOpen = TRUE
    /\ closeSeen = FALSE
    /\ errSeen = FALSE
    /\ errLogs = 0
    /\ sent = 0
    /\ served = <<>>
    /\ handlers = "None"

Init == InitExec /\ InitRelay /\ InitRegistry

Next ==
    \/ Submit
    \/ DropExecSenders
    \/ InputReply
    \/ TaskRequest
    \/ TaskAcquire
    \/ TaskRelease
    \/ StartR
    \/ RReadConsole
    \/ RcRelease
    \/ RcRecv
    \/ RcTimeout
    \/ RcReturn
    \/ RcTimeoutLock
    \/ RcPump
    \/ RPolledEvents
    \/ PeAcquire
    \/ RWriteConsole
    \/ RWriteConsoleDone
    \/ ListenInitialPrompt
    \/ ListenInitialize
    \/ ListenRecv
    \/ ListenRecvError
    \/ HandleRRequest
    \/ CompleteRecvPrompt
    \/ CompleteClassify
    \/ CompleteGetOption

Spec == Init /\ [][Next]_vars

\* The coordinator under fair scheduling. A thread that waits in lock() gets
\* the lock if the lock is free again and again: r_read_console leaves it
\* free for the 200 ms of every recv_timeout. The R main thread does not
\* stop between R_ProcessEvents and the release at the head of the loop.
FairSpec ==
    /\ Spec
    /\ SF_vars(TaskAcquire)
    /\ WF_vars(RcPump)
    /\ WF_vars(RcRelease)


-----------------------------------------------------------------------------
(* The session relay: PositronFrontend over a CommSocket *)

\* CommChannelMsg, the n-th thing sent; late records whether it was sent
\* after the session thread had taken a Close.
Data(n, late) == [kind |-> "Data", id |-> n, late |-> late]
Close(n, late) == [kind |-> "Close", id |-> n, late |-> late]
Rpc(n, late) == [kind |-> "Rpc", id |-> n, late |-> late]
Event(n, late) == [kind |-> "Event", id |-> n, late |-> late]

CommMessages(n, late) == {Data(n, late), Close(n, late), Rpc(n, late)}

\* handle_comm_message(msg): TRUE to continue, FALSE to exit.
HandleCommMessage(msg) ==
    CASE msg.kind = "Data" -> TRUE
      [] msg.kind = "Close" -> FALSE
      [] msg.kind = "Rpc" -> TRUE

\* What handle_comm_message puts on outgoing_tx for msg: nothing.
CommReplies(msg) == <<>>

\* dispatch_event(event): the message sent on outgoing_tx.
DispatchEvent(event) == Data(event.id, event.late)

\* Where the session thread goes when execution_thread returns: the closure
\* of start runs it again.
AfterExecutionThread == "outer"

\* The handlers a CommSocket is made with: none, or CommHandlers with or
\* without a request_handler.
HandlerChoices == {"None", "NoRequestHandler", "RequestHandler"}

\* PositronFrontend::start: the comm is handed over with the handlers it
\* was made with, the event channel is made, the thread spawned.
FrontendStart ==
    /\ pcS = "unspawned"
    /\ pcS' = "outer"
    /\ handlers' \in HandlerChoices
    /\ UNCHANGED <<incoming, outgoing, events, eventOpen, closeSeen, errSeen,
                   errLogs, sent, served>>
    /\ UNCHANGED <<execVars, registryVars>>

\* The transport sends a message of the front end on incoming_tx.
FrontEndSend ==
    /\ sent < MaxSent
    /\ \E msg \in CommMessages(sent + 1, closeSeen) :
         incoming' = Append(incoming, msg)
    /\ sent' = sent + 1
    /\ UNCHANGED <<pcS, outgoing, events, eventOpen, closeSeen, errSeen,
                   errLogs, served,
                   handlers>>
    /\ UNCHANGED <<execVars, registryVars>>

\* The kernel sends an event on the sender that start returned.
KernelEvent ==
    /\ pcS # "unspawned"
    /\ eventOpen
    /\ sent < MaxSent
    /\ events' = Append(events, Event(sent + 1, closeSeen))
    /\ sent' = sent + 1
    /\ UNCHANGED <<pcS, incoming, outgoing, eventOpen, closeSeen, errSeen,
                   errLogs, served,
                   handlers>>
    /\ UNCHANGED <<execVars, registryVars>>

\* The kernel drops the event sender.
DropEventSender ==
    /\ pcS # "unspawned"
    /\ eventOpen
    /\ eventOpen' = FALSE
    /\ UNCHANGED <<pcS, incoming, outgoing, events, closeSeen, errSeen,
                   errLogs, sent, served,
                   handlers>>
    /\ UNCHANGED <<execVars, registryVars>>

\* The closure of start: build the PositronFrontend, run execution_thread.
SessionLoop ==
    /\ pcS = "outer"
    /\ pcS' = "select"
    /\ UNCHANGED <<incoming, outgoing, events, eventOpen, closeSeen, errSeen,
                   errLogs, sent, served,
                   handlers>>
    /\ UNCHANGED <<execVars, registryVars>>

\* select!: the event source yields an event, which is dispatched.
SelectEvent ==
    /\ pcS = "select"
    /\ events # <<>>
    /\ outgoing' = Append(outgoing, DispatchEvent(Head(events)))
    /\ events' = Tail(events)
    /\ served' = Append(served, Head(events))
    /\ UNCHANGED <<pcS, incoming, eventOpen, closeSeen, errSeen, errLogs,
                   sent,
                   handlers>>
    /\ UNCHANGED <<execVars, registryVars>>

\* select!: the event source is disconnected; the error is logged and
\* execution_thread breaks out of its loop.
SelectEventError ==
    /\ pcS = "select"
    /\ events = <<>>
    /\ ~eventOpen
    /\ errLogs < MaxErrLogs
    /\ errLogs' = errLogs + 1
    /\ errSeen' = TRUE
    /\ pcS' = AfterExecutionThread
    /\ UNCHANGED <<incoming, outgoing, events, eventOpen, closeSeen, sent,
                   served,
                   handlers>>
    /\ UNCHANGED <<execVars, registryVars>>

\* select!: the incoming queue yields a message, which is handled.
SelectIncoming ==
    /\ pcS = "select"
    /\ incoming # <<>>
    /\ LET msg == Head(incoming)
       IN  /\ incoming' = Tail(incoming)
           /\ served' = Append(served, msg)
           /\ outgoing' = outgoing \o CommReplies(msg)
           /\ closeSeen' = (closeSeen \/ msg.kind = "Close")
           /\ pcS' = IF HandleCommMessage(msg)
                     THEN "select"
                     ELSE AfterExecutionThread
    /\ UNCHANGED <<events, eventOpen, errSeen, errLogs, sent,
                   handlers>>
    /\ UNCHANGED <<execVars, registryVars>>

RelayNext ==
    \/ FrontendStart
    \/ FrontEndSend
    \/ KernelEvent
    \/ DropEventSender
    \/ SessionLoop
    \/ SelectEvent
    \/ SelectEventError
    \/ SelectIncoming

RelaySpec == Init /\ [][RelayNext]_vars

RegistryNext ==
    \/ CallRegisterMethod
    \/ NamespaceLoaded
    \/ PopulateLoaded
    \/ CallTryDispatch

RegistrySpec == Init /\ [][RegistryNext]_vars


-----------------------------------------------------------------------------
(* Notions the properties share *)

\* The consumer has finished handling the i-th request it took.
Done(i) == i < Len(handled) \/ (i = Len(handled) /\ pcL = "recv")

\* The notifications made while the i-th request was handled.
ReportsFor(i) == {j \in 1..Len(reports) : reports[j].req = handled[i].id}

\* The consumer has classified the prompt of the i-th request it took.
Classified(i) == handled[i].kind = "ExecuteCode" /\ Done(i)

\* The i-th request's input request has been answered by the front end
\* (input requests are answered in the order they were made).
InputAnswered(i) ==
    \E j \in ReportsFor(i) :
        /\ reports[j].kind = "input"
        /\ Cardinality({k \in InputReports : k <= j}) <= answered

\* Nothing is left to happen for the requests submitted so far: all are
\* handled, every input request is answered, every line sent to the
\* interpreter is consumed and the interpreter waits for the next one.
Quiescent ==
    /\ pcL = "recv"
    /\ execQ = <<>>
    /\ console = <<>>
    /\ answered = Cardinality(InputReports)
    /\ pcM = "rc_wait"

-----------------------------------------------------------------------------
(* C1 *)

-----------------------------------------------------------------------------
(* C2 *)

\* C2: a thread that is inside an interpreter entry point holds the runtime
\* lock: the main thread in R_ProcessEvents, the consumer thread in
\* r_get_option("prompt").
C2_EntryPointsUnderLock ==
    /\ pcM = "rc_pump" => lockHolder = "main"
    /\ pcL = "get_option" => lockHolder = "listen"

-----------------------------------------------------------------------------
(* C3 *)

\* C3: while r_read_console waits for a reply, and until it takes the lock
\* back after the wait has returned, the main thread does not hold the
\* runtime lock.
C3_NoLockWhileWaiting ==
    pcM \in {"rc_wait", "rc_ok_lock", "rc_to_lock"} => lockHolder # "main"

\* C3 witness: the main thread waits for input while another thread holds
\* the runtime lock.
C3_Witness == pcM = "rc_wait" /\ lockHolder = "task"

-----------------------------------------------------------------------------
(* C6 *)

-----------------------------------------------------------------------------
(* C7 *)

\* C7: an evaluate request whose prompt starts with "+" is reported
\* incomplete, and neither request_input nor finish_request is made for it.
C7_ContinuationIsIncomplete ==
    \A i \in 1..Len(handled) :
        (Classified(i) /\ StartsWith(handled[i].prompt, <<"+">>))
        => /\ ReportsFor(i) # {}
           /\ \A j \in ReportsFor(i) : reports[j].kind = "incomplete"

\* C7 witness: a request with a continuation prompt has been handled.
C7_Witness ==
    \E i \in 1..Len(handled) :
        /\ Classified(i)
        /\ handled[i].prompt = ContinuePrompt
        /\ \E j \in ReportsFor(i) : reports[j].kind = "incomplete"

-----------------------------------------------------------------------------
(* C8 *)

\* C8: once r_read_console has received the reply None, its next step is its
\* return: it receives nothing more from the console channel, does not pump
\* the event loop and leaves the input buffer as it was.
C8_NoMoreInputReturns ==
    [][ (pcM = "rc_ok_lock" /\ resp = None)
        => /\ pcM' \in {"rc_ok_lock", "running"}
           /\ Len(console') >= Len(console)
           /\ mem' = mem
           /\ (pcM' = "running" => ret' = "eof") ]_vars

\* C8 witness: r_read_console has returned on a reply of None.
C8_Witness == pcM = "running" /\ ret = "eof"

-----------------------------------------------------------------------------
(* C9 *)

\* C9: when the receive of listen fails, the error is logged once and the
\* loop ends: the consumer is not at the receive again.
C9_ListenStopsOnRecvError ==
    /\ warns <= 1
    /\ warns = 1 => pcL # "recv"

-----------------------------------------------------------------------------
(* C4, C5, C10: the session relay *)

\* C4: once the session thread has taken a Close, it receives nothing that
\* was sent afterwards, message or event.
C4_NothingServedAfterClose ==
    \A i \in 1..Len(served) : ~served[i].late

\* C5: every RPC request the session thread has received has exactly one RPC
\* reply on the outgoing queue, with the request's id, and every RPC reply
\* there answers a request received.
C5_OneReplyPerRpc ==
    /\ \A i \in 1..Len(served) :
         served[i].kind = "Rpc" =>
            Cardinality({j \in 1..Len(outgoing) :
                outgoing[j].kind = "Rpc" /\ outgoing[j].id = served[i].id}) = 1
    /\ \A j \in 1..Len(outgoing) :
         outgoing[j].kind = "Rpc" =>
            \E i \in 1..Len(served) :
                served[i].kind = "Rpc" /\ served[i].id = outgoing[j].id

\* C10: once a receive of the session thread has failed, the thread never
\* waits on its sources again, and the error is logged once.
C10_SessionEndsOnError ==
    /\ errSeen => pcS # "select"
    /\ errLogs <= 1

-----------------------------------------------------------------------------
(* The runtime lock *)

\* The R main thread is where R_RUNTIME_LOCK_GUARD holds a guard: after
\* start_r took the lock, except between a release and the lock() that
\* follows it in r_read_console and r_polled_events.
MainHoldsGuard ==
    pcM \in {"running", "rc_release", "rc_pump", "write_console"}

\* The other thread is between its lock() and the drop of its guard.
TaskHoldsGuard == pcT = "holding"

\* C17: the runtime lock is free or owned by one thread; a thread that has a
\* guard is the owner; so the R main thread and another thread never have a
\* guard at the same time, whatever start_r, r_read_console and
\* r_polled_events have done.
C17_OneGuardAtATime ==
    /\ lockHolder \in {"none", "main", "task"}
    /\ MainHoldsGuard => lockHolder = "main"
    /\ TaskHoldsGuard => lockHolder = "task"
    /\ ~(MainHoldsGuard /\ TaskHoldsGuard)

\* The R main thread is at a lock() of r_read_console or r_polled_events
\* while the other thread has the guard.
C17_Witness ==
    /\ TaskHoldsGuard
    /\ pcM \in {"rc_ok_lock", "rc_to_lock", "pe_lock"}
    /\ lockHolder = "task"

\* The i-th request the consumer took had input requested for it.
InputRequestedFor(i) ==
    \E r \in ReportsFor(i) : reports[r].kind = "input"

C19_TimeoutThenLockPumpRelease ==
    [][/\ pcM = "rc_to_lock" => pcM' \in {"rc_to_lock", "rc_pump"}
       /\ (pcM = "rc_to_lock" /\ pcM' = "rc_pump") => lockHolder' = "main"
       /\ pcM = "rc_pump" =>
             /\ lockHolder = "main"
             /\ pcM' \in {"rc_pump", "rc_release"}
       /\ (pcM # "rc_pump" /\ pcM' = "rc_pump") =>
             /\ pcM = "rc_to_lock"
             /\ resp = NoResp
       /\ pcM = "rc_release" => pcM' \in {"rc_release", "rc_wait"}
       /\ pcM' = "rc_wait" => lockHolder' # "main"
       /\ pcM = "rc_ok_lock" => pcM' \in {"rc_ok_lock", "running"}]_vars

\* The wait has timed out and the R main thread has taken the lock back to
\* run R_ProcessEvents, while another thread waits for the lock.
C19_Witness ==
    /\ pcM = "rc_pump"
    /\ lockHolder = "main"
    /\ pcT = "waiting"

\* The R main thread is in the loop of r_read_console.
InConsoleLoop ==
    pcM \in {"rc_release", "rc_wait", "rc_to_lock", "rc_pump", "rc_ok_lock"}

\* C20: under fair scheduling, a thread that waits for the runtime lock
\* while the R main thread is in the loop of r_read_console gets the lock
\* as long as the R main thread stays in the loop; no reply has to arrive.
C20_WaitingThreadGetsLock ==
    (pcT = "waiting" /\ InConsoleLoop)
        ~> (TaskHoldsGuard \/ ~InConsoleLoop)

\* No reply was ever sent to the interpreter, the wait for one has timed
\* out, and the other thread has the lock.
C20_Witness ==
    /\ TaskHoldsGuard
    /\ pcM = "rc_to_lock"
    /\ console = <<>>
    /\ handled = <<>>

-----------------------------------------------------------------------------
(* The dispatch registry's properties *)

\* try_dispatch has been called.
Dispatched == dispatched.generic # "none"

\* C11: whenever try_dispatch is called for a generic and a value whose class
\* has no method of that generic in the table, it returns Ok(None): not a
\* value, and not an error.
C11_AbsentWhenUnregistered ==
    (Dispatched /\ dispatched.found = NoMethod)
        => dispatched.result = OkNone

\* An object's class has no method of the generic while methods of other
\* generics or classes are registered; the call was evaluated and the result
\* is Ok(None).
C11_Witness ==
    /\ Dispatched
    /\ RIsObject(dispatched.x)
    /\ dispatched.found = NoMethod
    /\ methodsTable # <<>>
    /\ dispatched.call # NoCall
    /\ dispatched.result = OkNone

\* The registrations of a generic and a class among the first n made.
RegistrationsOf(generic, class, n) ==
    {i \in 1..n : regLog[i].generic = generic /\ regLog[i].class = class}

\* The method registered last for a generic and a class, if any.
LastRegistered(generic, class) ==
    LET made == RegistrationsOf(generic, class, Len(regLog))
    IN  IF made = {} THEN NoMethod
        ELSE regLog[CHOOSE i \in made : \A j \in made : j <= i].method

\* The place of a namespace in loadedNamespaces().
Position(package) ==
    CHOOSE i \in 1..Len(LoadedNamespaces) : LoadedNamespaces[i] = package

EvaluatedWithoutError ==
    Resolves(dispatched.found) /\ dispatched.outcome # "raise"

\* C13: whenever try_dispatch is called for an object whose class has a
\* method of the generic in the table, it returns Ok(Some(value)) if the
\* method returns without raising and an error if the method raises; it
\* never returns Ok(None), the answer for "no method".
C13_FoundIsValueOrError ==
    (Dispatched /\ RIsObject(dispatched.x) /\ dispatched.found # NoMethod)
        => /\ EvaluatedWithoutError => dispatched.result.tag = "OkSome"
           /\ ~EvaluatedWithoutError => dispatched.result.tag = "Err"
           /\ dispatched.result.tag # "OkNone"

\* The registration that the scan of a namespace owes to a symbol name.
RegistrationFor(package, name) ==
    [generic |-> ParseMethod(name).generic,
     class |-> ParseMethod(name).class,
     method |-> [pkg |-> package,
                 sym |-> GenericName(ParseMethod(name).generic)
                           \o <<Dot>> \o ParseMethod(name).class]]

\* C14: after a namespace has been scanned, every scanned symbol that names
\* a method and whose registration does not fail has been registered by
\* that scan, whether it comes before or after a symbol whose registration
\* failed.
C14_ScanSkipsFailingSymbol ==
    \A p \in 1..Len(lastScan.packages) :
       LET package == lastScan.packages[p]
           names == SymbolNames(Bindings(package))
       IN  \A n \in 1..Len(names) :
              (ParseMethod(names[n]).matched
                 /\ ~Rejects(ParseMethod(names[n]).class))
               => \E i \in (lastScan.start + 1)..lastScan.end :
                     regLog[i] = RegistrationFor(package, names[n])

\* C16: whenever try_dispatch is called for a value that is not an object,
\* it returns Ok(None) and no interpreter call has been built or evaluated,
\* whatever the table holds.
C16_NoCallForNonObject ==
    (Dispatched /\ ~RIsObject(dispatched.x))
        => /\ dispatched.call = NoCall
           /\ dispatched.result = OkNone

\* try_dispatch was called for a value that is not an object although the
\* table holds a method of the generic for the value's implicit class.
C16_Witness ==
    /\ Dispatched
    /\ ~RIsObject(dispatched.x)
    /\ dispatched.found # NoMethod
    /\ dispatched.call = NoCall
    /\ dispatched.result = OkNone

\* C23: a symbol name that parse_method takes for a method is the generic's
\* name, a "." and the class; so every method that the scan of a namespace
\* has registered, package:::generic.class, names a symbol that the scan
\* met in that namespace.
C23_ParsedNameIsScannedSymbol ==
    /\ \A p \in 1..Len(lastScan.packages) :
          LET names == SymbolNames(Bindings(lastScan.packages[p]))
          IN  \A n \in 1..Len(names) :
                 ParseMethod(names[n]).matched =>
                    names[n] = GenericName(ParseMethod(names[n]).generic)
                                 \o <<Dot>> \o ParseMethod(names[n]).class
    /\ \A i \in 1..Len(regLog) :
          regLog[i].method.pkg # "" =>
             \E n \in 1..Len(SymbolNames(Bindings(regLog[i].method.pkg))) :
                SymbolNames(Bindings(regLog[i].method.pkg))[n]
                   = regLog[i].method.sym

-----------------------------------------------------------------------------
(* The session relay: requests without a handler *)

\* The comm has no handler for requests: no handlers at all, or
\* CommHandlers whose request_handler is None.
RequestHandlerAbsent == handlers \in {"None", "NoRequestHandler"}

\* C15: every RPC request the session thread has received on a comm without
\* a request handler has an "unhandled" report on the outgoing queue that
\* carries the request's id.
C15_UnhandledReportWhenNoHandler ==
    \A i \in 1..Len(served) :
       (served[i].kind = "Rpc" /\ RequestHandlerAbsent)
         => \E j \in 1..Len(outgoing) :
               /\ outgoing[j].kind = "Unhandled"
               /\ outgoing[j].id = served[i].id

-----------------------------------------------------------------------------
(* The idle hook, the consumer's waits and the returns of r_read_console *)

\* C21: r_polled_events leaves the runtime lock with the R main thread when
\* no task is pending; it gives the lock up only when R_RUNTIME_TASKS_PENDING
\* is set, and it returns only with the lock taken back: after the hook the
\* R main thread holds the guard in both cases.
C21_HookReleasesOnlyWhenPending ==
    [][/\ (pcM = "running" /\ ~tasksPending)
            => (lockHolder = "main" /\ lockHolder' = "main")
       /\ (pcM # "pe_lock" /\ pcM' = "pe_lock")
            => /\ pcM = "running"
               /\ tasksPending
               /\ lockHolder = "main"
               /\ lockHolder' = "none"
       /\ (pcM = "pe_lock" /\ pcM' # "pe_lock")
            => (pcM' = "running" /\ lockHolder' = "main")]_vars

\* The hook has released the lock for a pending task and the other thread
\* has taken it; the R main thread is at the hook's lock().
C21_Witness ==
    /\ pcM = "pe_lock"
    /\ pcT = "holding"
    /\ ~tasksPending

\* C22: while the consumer waits for the prompt of the evaluate request it
\* handed to the interpreter, it holds neither the kernel mutex nor the
\* runtime lock: r_write_console finds the kernel mutex free whenever the R
\* main thread calls it during that wait.
C22_NothingHeldWhileWaitingForPrompt ==
    pcL = "wait_prompt" =>
       /\ kernelHolder # "listen"
       /\ lockHolder # "listen"
       /\ pcM = "running" => kernelHolder = "none"

\* The consumer waits for the prompt while the R main thread is inside
\* r_write_console with the kernel mutex.
C22_Witness ==
    /\ pcL = "wait_prompt"
    /\ pcM = "write_console"
    /\ kernelHolder = "main"

\* r_read_console has published R's first prompt.
FirstPromptPublished ==
    \/ pcM \in {"rc_release", "rc_wait", "rc_ok_lock", "rc_to_lock", "rc_pump"}
    \/ ret # "none"

\* C24: the consumer takes no request before R's first prompt: it consumes
\* the first prompt, then marks the kernel initialized, once, and only then
\* receives requests. Until then every request submitted is still queued;
\* the requests are taken in the order they were submitted.
C24_NoRequestBeforeFirstPrompt ==
    /\ initialized <= 1
    /\ initialized = 1 <=> pcL \notin {"unspawned", "init_prompt", "initialize"}
    /\ pcL \notin {"unspawned", "init_prompt"} => FirstPromptPublished
    /\ initialized = 0 => (handled = <<>> /\ Len(execQ) = submitted)
    /\ \A i, j \in 1..Len(handled) : i < j => handled[i].id < handled[j].id

\* The consumer has taken R's first prompt and has not yet marked the kernel
\* initialized, while every request that can be submitted waits in the
\* queue.
C24_Witness ==
    /\ pcL = "initialize"
    /\ Len(execQ) = MaxRequests
    /\ handled = <<>>

\* C25: whenever r_read_console returns, with a reply, with "no more input"
\* or with its own answer to the "Save workspace" prompt, the R main thread
\* owns the runtime lock: the interpreter never goes on without it.
C25_ReturnsWithGuard ==
    [][(/\ pcM' = "running"
        /\ \/ pcM \in {"rc_release", "rc_wait", "rc_ok_lock", "rc_to_lock",
                       "rc_pump"}
           \/ ret' # ret
           \/ mem' # mem)
          => /\ lockHolder' = "main"
             /\ ret' \in {"reply", "eof", "save"}
             /\ ret' = "save" <=> pcM = "running"
             /\ ret' # "save" => (pcM = "rc_ok_lock" /\ lockHolder = "none")]_vars

\* r_read_console has returned a reply to the interpreter, which owns the
\* lock, while another thread waits for the lock with work pending.
C25_Witness ==
    /\ pcM = "running"
    /\ ret = "reply"
    /\ lockHolder = "main"
    /\ pcT = "waiting"
    /\ tasksPending

\* C26: on_console_input never writes past the buffer: the bytes it copies
\* for a reply (the input, the newline and the NUL) all land in the buflen
\* bytes of the buffer, so the byte after the buffer keeps its value; and an
\* input that takes more than buflen bytes with its newline and NUL is not
\* copied, the buffer is left as it was.
C26_CopyStaysInBuffer ==
    [][(pcM = "rc_ok_lock" /\ pcM' = "running" /\ resp.some)
          => /\ mem'[BufLen + 1] = mem[BufLen + 1]
             /\ Len(resp.val) + 2 > BufLen => mem' = mem]_vars

=============================================================================
